---------------------------- MODULE Spec2Model ----------------------------
(***************************************************************************)
(* GlassesVisionSystem: the event bus (utils/events.py), the speech        *)
(* service (src/narration/tts_service.py) and the speak call sites of the  *)
(* orchestrator (src/main.py), as state machines.                          *)
(*                                                                         *)
(* SpecBus, SpecLock, SpecQueue : EventBus - subscribe / publish / the     *)
(*   dispatch thread.                                                      *)
(* SpecCap, SpecOrd : TTSService - speak / synthesis threads / consumer.   *)
(* SpecSynth : TTSService - speak / synthesis threads / the audio cache.   *)
(* SpecTrack, SpecScene : SceneAnalyzer - analyze over several frames, and *)
(*   over the detection sets of one frame.                                 *)
(* SpecCtl : VisionAssistant - the adaptive resolution controller.         *)
(* SpecStart : VisionAssistant - the readiness wait, the subscriptions and *)
(*   start.                                                                *)
(* SpecPipe : VisionAssistant - the frame pipeline and the command and     *)
(*   alert handlers on the dispatch thread, with the detection pool.       *)
(* SpecShut, FairSpecShut : VisionAssistant - the shutdown on the main     *)
(*   thread, next to the pipeline, the pool and the audio consumer.        *)
(***************************************************************************)
EXTENDS Integers, Sequences, FiniteSets, Bags, TLC

None == "none"

--------------------------------------------------------------------------
(* Bounds of the bus model *)
MaxEvents == 4        \* publish calls in one behaviour of SpecBus
MaxSubs == 3          \* subscribe calls in one behaviour of SpecBus
MaxLockEvents == 2    \* publish calls in one behaviour of SpecLock
MaxQueued == 7        \* publish calls in one behaviour of SpecQueue

EventTypes == {"FRAME_CAPTURED", "SYSTEM_ALERT"}
PubPriorities == {5}            \* the default of publish, used by main.py
QueuePriorities == {1, 3, 5}    \* offered in SpecQueue; 1: logger.py:114
SubPriorities == {5, 9}         \* 5: default of subscribe
SubThreads == {"main"}          \* threads other than the dispatch thread

VARIABLES
  subscriptions,   \* EventBus._subscriptions: type -> list of (priority, handler)
  queue,           \* EventBus._queue: the heap list of queue.PriorityQueue
  lock,            \* EventBus._lock: owner of the RLock, or None
  worker,          \* EventBus._worker: position of _process_events/_dispatch
  subcall,         \* subscribe calls of other threads waiting for the lock
  nsubs,           \* number of subscribe calls made (handler identities)
  nevents,         \* number of publish calls made (event identities)
  buslog           \* history: what the dispatch thread and publishers did

busvars == <<subscriptions, queue, lock, worker, subcall, nsubs, nevents, buslog>>

VARIABLES
  audio_queue,   \* TTSService.audio_queue: list of (audio, priority)
  cache,         \* audio_cache/<hash(text)>.npy: text -> waveform or None
  config,        \* tts.use_online, tts.cache_enabled
  running,       \* TTSService.running
  tasks,         \* the _synthesize_task threads alive: a bag of their states
  caller,        \* the thread inside speak() (the dispatch thread in a handler)
  consumer,      \* the _audio_consumer thread: position, items, index
  playing,       \* what the output device is playing (sd.play .. sd.wait)
  nspeak,        \* number of speak calls made
  temp_audio,    \* temp_audio.wav of _offline_synthesis: whose speech it holds
  lastcall       \* history: the last speak call of SpeakRequest

ttsvars == <<audio_queue, cache, config, running, tasks, caller, consumer,
             playing, nspeak, temp_audio, lastcall>>

VARIABLES
  tracks,        \* SceneAnalyzer.tracks: id -> ObjectTrack
  clock,         \* time.time() as seen by the analyzer: one tick per call
  scene          \* history: the last analyze call and how it ended

scenevars == <<tracks, clock, scene>>

VARIABLES
  resolution,    \* config: processing.resolution, or None when not set
  frame_counter, \* VisionAssistant.frame_counter
  adjusted       \* history: the last _adjust_processing_params call

ctlvars == <<resolution, frame_counter, adjusted>>

VARIABLES
  startup,       \* VisionAssistant.__init__ and start(): position, retries left
  assistant,     \* VisionAssistant.running
  hw,            \* the camera and the command listener: capturing, listening, released
  pipe,          \* _process_frame on the dispatch thread: stage, frame, exception
  pool,          \* VisionAssistant.executor: the detection future, shut down or not
  eventdata,     \* Event.data of the events published, by event identity
  framelog,      \* history: what happened to each frame event, by event identity
  shut           \* _graceful_shutdown: position and the steps done

mainvars == <<startup, assistant, hw, pipe, pool, eventdata, framelog, shut>>

nonbusvars == <<ttsvars, scenevars, ctlvars, mainvars>>
nonttsvars == <<busvars, scenevars, ctlvars, mainvars>>

vars == <<busvars, ttsvars, scenevars, ctlvars, mainvars>>

--------------------------------------------------------------------------
(* queue.PriorityQueue: heapq on a list of (-priority, event) tuples.      *)
(* An entry is [key |-> -priority, id |-> event identity, type |-> type].  *)

\* tuple comparison a < b of (-priority, event): decided by the first
\* element when it differs; otherwise Event < Event, which raises TypeError
\* (Event is a dataclass without order=True, and two events differ).
TupleLess(a, b) ==
  IF a.key # b.key THEN (IF a.key < b.key THEN "lt" ELSE "ge") ELSE "raise"

Swap(h, i, j) == [h EXCEPT ![i] = h[j], ![j] = h[i]]

\* _heapq siftdown: move h[pos] up towards startpos while smaller than its
\* parent; entries are swapped in place, so a raising comparison leaves the
\* list as it is at that moment.
RECURSIVE siftdown(_, _, _)
siftdown(h, startpos, pos) ==
  IF pos <= startpos THEN [heap |-> h, raised |-> FALSE]
  ELSE LET parentpos == pos \div 2
           c == TupleLess(h[pos], h[parentpos])
       IN IF c = "raise" THEN [heap |-> h, raised |-> TRUE]
          ELSE IF c = "ge" THEN [heap |-> h, raised |-> FALSE]
          ELSE siftdown(Swap(h, pos, parentpos), startpos, parentpos)

\* _heapq siftup: bubble the smaller child up until a leaf is hit, then
\* siftdown from there.
RECURSIVE siftup_loop(_, _)
siftup_loop(h, pos) ==
  IF 2 * pos > Len(h) THEN siftdown(h, 1, pos)
  ELSE LET left == 2 * pos
           c == IF left + 1 <= Len(h) THEN TupleLess(h[left], h[left + 1])
                ELSE "lt"
           childpos == IF c = "lt" THEN left ELSE left + 1
       IN IF c = "raise" THEN [heap |-> h, raised |-> TRUE]
          ELSE siftup_loop(Swap(h, childpos, pos), childpos)

siftup(h, pos) == siftup_loop(h, pos)

\* heapq.heappush(heap, item)
heappush(h, item) == siftdown(Append(h, item), 1, Len(h) + 1)

\* heapq.heappop(heap): [heap, raised, item]; when the sift raises, the
\* smallest entry has already been taken off the list and is not returned.
heappop(h) ==
  LET n == Len(h)
      lastelt == h[n]
      rest == SubSeq(h, 1, n - 1)
  IN IF n = 1 THEN [heap |-> rest, raised |-> FALSE, item |-> lastelt]
     ELSE LET r == siftup([rest EXCEPT ![1] = lastelt], 1)
          IN [heap |-> r.heap, raised |-> r.raised, item |-> h[1]]

--------------------------------------------------------------------------
(* list.sort(reverse=True, key=lambda x: x[0]): stable, descending.        *)

\* the entries of s of the priorities ps, highest priority first, entries of
\* one priority in the order they have in s
RECURSIVE SortFrom(_, _)
SortFrom(s, ps) ==
  IF ps = {} THEN <<>>
  ELSE LET m == CHOOSE p \in ps : \A q \in ps : q <= p
       IN SelectSeq(s, LAMBDA x : x.priority = m) \o SortFrom(s, ps \ {m})

SortDesc(s) == SortFrom(s, {s[i].priority : i \in 1..Len(s)})

\* the body of EventBus.subscribe under the lock
subscribe_body(subs, type, handler, priority) ==
  [subs EXCEPT ![type] =
     SortDesc(Append(@, [priority |-> priority, handler |-> handler]))]

--------------------------------------------------------------------------
\* "no value" of the record-valued fields
NoEvent == [key |-> 0, id |-> 0, type |-> None]
NoHandler == [priority |-> 0, handler |-> 0]
NoCall == [type |-> None, handler |-> 0, priority |-> 0]

IdleWorker == [pc |-> "get", event |-> NoEvent, idx |-> 0]

EmptyLog == [invoked |-> <<>>,       \* handlers invoked for the current event
             atdispatch |-> <<>>,    \* subscribers of its type when dispatch began
             completed |-> FALSE,    \* _dispatch has returned for that event
             raisedin |-> FALSE,     \* a handler raised during this dispatch
             raisedat |-> -1,        \* publish calls made when a handler first raised
             lostafter |-> FALSE]    \* an event published after that was dropped

\* the bus after EventBus(): no subscriber of any of the event types used
InitBusOf(types) ==
  /\ subscriptions = [t \in types |-> <<>>]
  /\ queue = <<>>
  /\ lock = None
  /\ worker = IdleWorker
  /\ subcall = [t \in SubThreads |-> NoCall]
  /\ nsubs = 0
  /\ nevents = 0
  /\ buslog = EmptyLog

InitBus == InitBusOf(EventTypes)

--------------------------------------------------------------------------
(* EventBus.subscribe called by a thread other than the dispatch thread.   *)

\* the call is made: the thread arrives at `with self._lock`
SubscribeCall(t) ==
  /\ subcall[t] = NoCall
  /\ nsubs < MaxSubs
  /\ \E type \in EventTypes, priority \in SubPriorities :
       subcall' = [subcall EXCEPT ![t] =
                     [type |-> type, handler |-> nsubs + 1, priority |-> priority]]
  /\ nsubs' = nsubs + 1
  /\ UNCHANGED <<subscriptions, queue, lock, worker, nevents, buslog,
                 nonbusvars>>

\* the lock is free: append, sort, release
SubscribeLocked(t) ==
  /\ subcall[t] # NoCall
  /\ lock = None
  /\ subscriptions' = subscribe_body(subscriptions, subcall[t].type,
                                     subcall[t].handler, subcall[t].priority)
  /\ subcall' = [subcall EXCEPT ![t] = NoCall]
  /\ UNCHANGED <<queue, lock, worker, nsubs, nevents, buslog,
                 nonbusvars>>

(* EventBus.publish: self._queue.put((-priority, event)), from any thread. *)
(* A raising heappush leaves the appended entry in the list.               *)
Publish(types, priorities, maxevents) ==
  /\ nevents < maxevents
  /\ \E type \in types, priority \in priorities :
       LET r == heappush(queue, [key |-> 0 - priority, id |-> nevents + 1,
                                 type |-> type])
       IN queue' = r.heap
  /\ nevents' = nevents + 1
  /\ UNCHANGED <<subscriptions, lock, worker, subcall, nsubs, buslog,
                 nonbusvars>>

(* EventBus._process_events: priority, event = self._queue.get()           *)
WorkerGet ==
  /\ worker.pc = "get"
  /\ queue # <<>>
  /\ LET r == heappop(queue)
     IN /\ queue' = r.heap
        /\ IF r.raised
           THEN \* except Exception: logged, the loop goes on; the entry is gone
                /\ worker' = worker
                /\ buslog' = [buslog EXCEPT !.lostafter =
                     @ \/ (buslog.raisedat >= 0 /\ r.item.id > buslog.raisedat)]
           ELSE /\ worker' = [pc |-> "dispatch", event |-> r.item, idx |-> 0]
                /\ buslog' = buslog
  /\ UNCHANGED <<subscriptions, lock, subcall, nsubs, nevents,
                 nonbusvars>>

LockDuringHandlers_released(owner) == None

\* where the lock is once the handler list has been looked up:
\* `with self._lock:` encloses the whole for loop
LockDuringHandlers(owner) == owner

(* EventBus._dispatch: with self._lock: handlers = self._subscriptions.get *)
WorkerDispatch ==
  /\ worker.pc = "dispatch"
  /\ lock = None
  /\ lock' = LockDuringHandlers("worker")
  /\ worker' = [worker EXCEPT !.pc = "iter", !.idx = 0]
  /\ buslog' = [buslog EXCEPT
       !.invoked = <<>>,
       !.atdispatch = subscriptions[worker.event.type],
       !.raisedin = FALSE,
       !.completed = FALSE]
  /\ UNCHANGED <<subscriptions, queue, subcall, nsubs, nevents,
                 nonbusvars>>

\* the list iterator of `for _, handler in handlers`: it indexes the live
\* list, which subscribe() re-sorts in place
iter_next(handlers, idx) ==
  IF idx < Len(handlers) THEN handlers[idx + 1] ELSE NoHandler

\* one step of the for loop: call the next handler, or leave the with block
WorkerIter ==
  /\ worker.pc = "iter"
  /\ LET h == iter_next(subscriptions[worker.event.type], worker.idx)
     IN IF h # NoHandler
        THEN /\ worker' = [worker EXCEPT !.pc = "handler", !.idx = @ + 1]
             /\ buslog' = [buslog EXCEPT !.invoked = Append(@, h.handler)]
             /\ lock' = lock
        ELSE /\ worker' = IdleWorker
             /\ buslog' = [buslog EXCEPT !.completed = TRUE]
             /\ lock' = None
  /\ UNCHANGED <<subscriptions, queue, subcall, nsubs, nevents,
                 nonbusvars>>

\* the handler, running on the dispatch thread, calls subscribe()
HandlerSubscribe ==
  /\ worker.pc = "handler"
  /\ lock \in {None, "worker"}       \* RLock: re-entrant for its owner
  /\ nsubs < MaxSubs
  /\ \E type \in EventTypes, priority \in SubPriorities :
       subscriptions' = subscribe_body(subscriptions, type, nsubs + 1, priority)
  /\ nsubs' = nsubs + 1
  /\ UNCHANGED <<queue, lock, worker, subcall, nevents, buslog,
                 nonbusvars>>

\* handler(event) returns
HandlerReturn ==
  /\ worker.pc = "handler"
  /\ worker' = [worker EXCEPT !.pc = "iter"]
  /\ UNCHANGED <<subscriptions, queue, lock, subcall, nsubs, nevents, buslog,
                 nonbusvars>>

\* handler(event) raises: except Exception, logged, next handler
HandlerRaise ==
  /\ worker.pc = "handler"
  /\ worker' = [worker EXCEPT !.pc = "iter"]
  /\ buslog' = [buslog EXCEPT !.raisedin = TRUE,
                              !.raisedat = IF @ < 0 THEN nevents ELSE @]
  /\ UNCHANGED <<subscriptions, queue, lock, subcall, nsubs, nevents,
                 nonbusvars>>


--------------------------------------------------------------------------
(* TTSService (src/narration/tts_service.py)                               *)

Capacity == 10          \* queue.Queue(maxsize=10)
MaxTasks == 2           \* synthesis threads alive at the same time, SpecOrd
MaxTasksCap == 1        \* synthesis threads alive at the same time, SpecCap
MaxSpeakCap == 11       \* speak calls in one behaviour of SpecCap
MaxSpeakOrd == 3        \* speak calls in one behaviour of SpecOrd
MaxSpeakSynth == 2      \* speak calls in one behaviour of SpecSynth

AlertText == "alert"          \* f"[{level}] {msg}"
ReplyText == "reply"          \* the fixed replies of the command handler
NarrationText == "narration"  \* a non-empty result of narrator.generate
Texts == {AlertText, ReplyText, NarrationText}
BlankTexts == {"", "   "}       \* empty, whitespace only
Narrations == {"", NarrationText}
SpeakTexts == BlankTexts \cup {ReplyText, NarrationText}
SpeakPriorities == {0, 2}     \* the default; the example call of tts_service.py
CacheKeys == Texts \cup BlankTexts   \* hash(text) of every text offered
Corrupt == "corrupt"          \* a cache file that np.load cannot read
SpokenLevels == {"CRITICAL", "HIGH"}

AlertPriority == 0        \* main.py:211  speak(alert_msg, priority=0)
DefaultPriority == 0      \* tts_service.py:80  priority: int = 0
NarrationPriority == 1    \* main.py:135  scene_data.get("priority", 1)


NoItem == [audio |-> None, priority |-> 0]
\* a thread started by speak(): threading.Thread(target=_synthesize_task,
\* args=(text, priority)); online, offline: engine calls made so far
NewTask(text, priority) ==
  [pc |-> "synth", text |-> text, priority |-> priority,
   audio |-> None, online |-> 0, offline |-> 0, onlinefailed |-> FALSE]
TasksAt(pc) == {r \in BagToSet(tasks) : r.pc = pc}
\* one thread goes from state r to state r2
task_step(r, r2) == (tasks (-) SetToBag({r})) (+) SetToBag({r2})
NoSpeak == [text |-> None, priority |-> 0, found |-> None]
IdleCaller == [pc |-> "idle", item |-> NoItem]
\* the consumer in time.sleep(0.1): the batch is not used again
SleepingConsumer == [pc |-> "sleep", items |-> <<>>, idx |-> 0]

\* config.get("tts.use_online", True), config.get("tts.cache_enabled", True)
DefaultConfig == [online_enabled |-> TRUE, cache_enabled |-> TRUE]
AnyConfig == [online_enabled : BOOLEAN, cache_enabled : BOOLEAN]

InitTTS(configs) ==
  /\ audio_queue = <<>>
  /\ cache = [t \in CacheKeys |-> None]
  /\ config \in configs
  /\ running = TRUE
  /\ tasks = EmptyBag
  /\ caller = IdleCaller
  /\ consumer = [pc |-> "loop", items |-> <<>>, idx |-> 0]
  /\ playing = NoItem
  /\ nspeak = 0
  /\ temp_audio = None
  /\ lastcall = NoSpeak

put_ready_offbyone(q) == Len(q) <= Capacity
put_ready_always(q) == TRUE

\* Queue.put(item) with maxsize > 0 waits on not_full while the queue is full
put_ready(q) == Len(q) < Capacity

\* text.strip()
strip(text) == IF text \in BlankTexts THEN "" ELSE text

is_blank_nostrip(text) == text = ""

\* not text.strip()
is_blank(text) == strip(text) = ""

\* np.load(cache_file) of a file that exists: the waveform, or it raises
np_load(file) == IF file = Corrupt THEN "raise" ELSE file

check_cache_never(text) == None

\* _check_cache(text): the stored waveform, or None (caching switched off,
\* no file, or np.load raised)
check_cache(text) ==
  IF ~config.cache_enabled THEN None
  ELSE IF cache[text] = None THEN None
  ELSE IF np_load(cache[text]) = "raise" THEN None
  ELSE np_load(cache[text])

(* TTSService.speak(text, priority) on the calling thread                  *)
speak(text, priority, maxtasks) ==
  /\ caller.pc = "idle"
  /\ nspeak' = nspeak + 1
  /\ IF is_blank(text)
     THEN UNCHANGED <<caller, tasks>>
     ELSE \/ \* cache hit: self.audio_queue.put((audio_data, priority))
             /\ check_cache(text) # None
             /\ caller' = [pc |-> "put",
                           item |-> [audio |-> check_cache(text),
                                     priority |-> priority]]
             /\ UNCHANGED tasks
          \/ \* miss: threading.Thread(...).start()
             /\ check_cache(text) = None
             /\ BagCardinality(tasks) < maxtasks
             /\ tasks' = tasks (+) SetToBag({NewTask(text, priority)})
             /\ UNCHANGED caller
  /\ UNCHANGED <<audio_queue, cache, config, running, consumer, playing,
                 temp_audio>>

\* the blocking put of speak() on a cache hit
CallerPut ==
  /\ caller.pc = "put"
  /\ put_ready(audio_queue)
  /\ audio_queue' = Append(audio_queue, caller.item)
  /\ caller' = IdleCaller
  /\ UNCHANGED <<cache, config, running, tasks, consumer, playing, nspeak,
                 temp_audio, lastcall,
                 nonttsvars>>

(* the speak call sites of VisionAssistant (src/main.py)                   *)
HandleSystemAlert(maxspeak, maxtasks) ==
  /\ nspeak < maxspeak
  /\ \E level \in SpokenLevels : speak(AlertText, AlertPriority, maxtasks)
  /\ UNCHANGED <<lastcall, nonttsvars>>

HandleUserCommand(maxspeak, maxtasks) ==
  /\ nspeak < maxspeak
  /\ speak(ReplyText, DefaultPriority, maxtasks)
  /\ UNCHANGED <<lastcall, nonttsvars>>

ProcessFrameSpeak(maxspeak, maxtasks) ==
  /\ nspeak < maxspeak
  /\ \E narration \in Narrations : speak(narration, NarrationPriority, maxtasks)
  /\ UNCHANGED <<lastcall, nonttsvars>>

\* speak(text, priority) called by any client of the service
SpeakRequest(maxspeak, maxtasks) ==
  /\ nspeak < maxspeak
  /\ \E text \in SpeakTexts, priority \in SpeakPriorities :
       /\ speak(text, priority, maxtasks)
       /\ lastcall' = [text |-> text, priority |-> priority,
                       found |-> check_cache(text)]
  /\ UNCHANGED nonttsvars

(* TTSService._synthesize_task(text, priority)                             *)

synth_failed_unchecked(task) ==
  [task EXCEPT !.pc = "cache", !.onlinefailed = config.online_enabled]

\* the task after its engine call failed (None or an exception)
synth_failed(task) ==
  [task EXCEPT !.pc = "exit", !.onlinefailed = config.online_enabled]

\* if self.online_enabled: audio = self._online_synthesis(text): the
\* waveform of the text, or None, or an exception of _convert_audio.
\* else: audio = self._offline_synthesis(text): None without an engine;
\* otherwise tts_to_file writes temp_audio.wav, which is read afterwards.
synthesize(task, outcome) ==
  IF config.online_enabled
  THEN LET t == [task EXCEPT !.online = @ + 1]
       IN IF outcome = "ok"
          THEN [t EXCEPT !.pc = "cache", !.audio = task.text]
          ELSE synth_failed(t)
  ELSE LET t == [task EXCEPT !.offline = @ + 1]
       IN IF outcome = "ok"
          THEN [t EXCEPT !.pc = "offread"]
          ELSE synth_failed(t)

TaskSynthesize ==
  /\ \E r \in TasksAt("synth"), outcome \in {"ok", "none", "raise"} :
       /\ tasks' = task_step(r, synthesize(r, outcome))
       /\ temp_audio' = IF ~config.online_enabled /\ outcome = "ok"
                        THEN r.text ELSE temp_audio
  /\ UNCHANGED <<audio_queue, cache, config, running, caller, consumer,
                 playing, nspeak, lastcall, nonttsvars>>

\* with open("temp_audio.wav", "rb") as f: return self._convert_audio(f.read())
\* - what the file holds now - or an exception, caught: None
TaskOfflineRead ==
  /\ \E r \in TasksAt("offread") :
       \/ tasks' = task_step(r, [r EXCEPT !.pc = "cache", !.audio = temp_audio])
       \/ tasks' = task_step(r, synth_failed(r))
  /\ UNCHANGED <<audio_queue, cache, config, running, caller, consumer,
                 playing, nspeak, temp_audio, lastcall, nonttsvars>>

\* where the task goes when _add_to_cache raised: the exception leaves the
\* try block of _synthesize_task
after_cache_error(r) == [r EXCEPT !.pc = "exit"]

\* self._add_to_cache(text, audio): np.save writes the file; or it raises
\* (os.makedirs, open or write fails) and leaves no file, the old file or a
\* partly written one
TaskAddToCache ==
  /\ \E r \in TasksAt("cache") :
       \/ /\ cache' = [cache EXCEPT ![r.text] = r.audio]
          /\ tasks' = task_step(r, [r EXCEPT !.pc = "put"])
       \/ /\ \/ cache' = cache
             \/ cache' = [cache EXCEPT ![r.text] = Corrupt]
          /\ tasks' = task_step(r, after_cache_error(r))
  /\ UNCHANGED <<audio_queue, config, running, caller, consumer,
                 playing, nspeak, temp_audio, lastcall,
                 nonttsvars>>

\* self.audio_queue.put((audio, priority))
TaskPut ==
  /\ put_ready(audio_queue)
  /\ \E r \in TasksAt("put") :
       /\ audio_queue' = Append(audio_queue,
            [audio |-> r.audio, priority |-> r.priority])
       /\ tasks' = task_step(r, [r EXCEPT !.pc = "exit"])
  /\ UNCHANGED <<cache, config, running, caller, consumer, playing, nspeak,
                 temp_audio, lastcall,
                 nonttsvars>>

\* the thread ends
TaskExit ==
  /\ \E r \in TasksAt("exit") : tasks' = tasks (-) SetToBag({r})
  /\ UNCHANGED <<audio_queue, cache, config, running, caller, consumer,
                 playing, nspeak, temp_audio, lastcall,
                 nonttsvars>>

(* TTSService._audio_consumer                                              *)

sort_items_unsorted(items) == items

\* items.sort(key=lambda x: -x[1]): stable, highest priority first
sort_items(items) == SortDesc(items)

\* while self.running: items = []
ConsumerLoop ==
  /\ consumer.pc = "loop"
  /\ consumer' = IF running THEN [pc |-> "drain", items |-> <<>>, idx |-> 0]
                 ELSE [consumer EXCEPT !.pc = "exited"]
  /\ UNCHANGED <<audio_queue, cache, config, running, tasks, caller, playing,
                 nspeak, temp_audio, lastcall,
                 nonttsvars>>

\* while not self.audio_queue.empty(): items.append(self.audio_queue.get());
\* then items.sort(...)
ConsumerDrain ==
  /\ consumer.pc = "drain"
  /\ IF audio_queue # <<>>
     THEN /\ audio_queue' = Tail(audio_queue)
          /\ consumer' = [consumer EXCEPT !.items = Append(@, Head(audio_queue))]
     ELSE /\ audio_queue' = audio_queue
          /\ consumer' = [consumer EXCEPT !.pc = "play", !.idx = 1,
                                          !.items = sort_items(@)]
  /\ UNCHANGED <<cache, config, running, tasks, caller, playing, nspeak, temp_audio, lastcall,
                 nonttsvars>>

\* what sd.play(audio) does to the device: the new stream replaces the old
sd_play(item) == item

\* for audio, _ in items: sd.play(audio, samplerate=24000)
ConsumerPlay ==
  /\ consumer.pc = "play"
  /\ IF consumer.idx <= Len(consumer.items)
     THEN /\ playing' = sd_play(consumer.items[consumer.idx])
          /\ consumer' = [consumer EXCEPT !.pc = "wait"]
     ELSE /\ playing' = playing
          /\ consumer' = SleepingConsumer
  /\ UNCHANGED <<audio_queue, cache, config, running, tasks, caller, nspeak, temp_audio, lastcall,
                 nonttsvars>>

\* sd.wait() returns once the device is idle
wait_done(p) == p = NoItem

ConsumerWait ==
  /\ consumer.pc = "wait"
  /\ wait_done(playing)
  /\ consumer' = [consumer EXCEPT !.pc = "play", !.idx = @ + 1]
  /\ UNCHANGED <<audio_queue, cache, config, running, tasks, caller, playing,
                 nspeak, temp_audio, lastcall,
                 nonttsvars>>

\* sd.play or sd.wait raises (the stream is closed): except Exception,
\* printed, the rest of the batch is left
ConsumerError ==
  /\ \/ consumer.pc = "play" /\ consumer.idx <= Len(consumer.items)
     \/ consumer.pc = "wait"
  /\ consumer' = SleepingConsumer
  /\ playing' = NoItem
  /\ UNCHANGED <<audio_queue, cache, config, running, tasks, caller,
                 nspeak, temp_audio, lastcall,
                 nonttsvars>>

\* time.sleep(0.1)
ConsumerSleep ==
  /\ consumer.pc = "sleep"
  /\ consumer' = [consumer EXCEPT !.pc = "loop"]
  /\ UNCHANGED <<audio_queue, cache, config, running, tasks, caller, playing,
                 nspeak, temp_audio, lastcall,
                 nonttsvars>>

\* the output device reaches the end of the waveform
DeviceFinish ==
  /\ playing # NoItem
  /\ playing' = NoItem
  /\ UNCHANGED <<audio_queue, cache, config, running, tasks, caller, consumer,
                 nspeak, temp_audio, lastcall,
                 nonttsvars>>

(* TTSService.stop(): running = False; sd.stop(); join(timeout=1)          *)
Stop ==
  /\ running
  /\ running' = FALSE
  /\ playing' = NoItem
  /\ UNCHANGED <<audio_queue, cache, config, tasks, caller, consumer, nspeak, temp_audio, lastcall,
                 nonttsvars>>

TTSSteps ==
  \/ CallerPut
  \/ TaskSynthesize
  \/ TaskAddToCache
  \/ TaskPut
  \/ TaskExit
  \/ ConsumerLoop
  \/ ConsumerDrain
  \/ ConsumerPlay
  \/ ConsumerWait
  \/ ConsumerError
  \/ ConsumerSleep
  \/ DeviceFinish
  \/ Stop

--------------------------------------------------------------------------
(* SceneAnalyzer (src/processing/scene_analyzer.py)                        *)

MaxCalls == 6           \* analyze calls in one behaviour of SpecTrack
MaxSceneCalls == 1      \* analyze calls in one behaviour of SpecScene

ContextWindow == 5      \* config.get("scene.context_window", 5)
DistanceThreshold == 200  \* risk_params["distance_threshold"]

Ids == 1..3
Classes == {"person", "traffic_light", "chair", "computer", "desk"}
ClassOrder == <<"person", "traffic_light", "chair", "computer", "desk">>
Absent == "absent"      \* a detection without the key "attributes"
EmptyAttrs == "empty"   \* the attribute map {}
Actions == {"walking"}  \* {"action": ...}

NearBox == <<300, 200, 340, 280>>   \* centre (320, 240)
EdgeBox == <<500, 200, 540, 280>>   \* centre (520, 240)
FarBox == <<0, 0, 40, 40>>          \* centre (20, 20)

\* self.scene_rules, the default of config.get("scene.rules", ...), in the
\* order of the dict; optional: rule.get("optional", [])
scene_rules ==
  << [label |-> "crosswalk", required |-> {"person", "traffic_light"},
      optional |-> {}],
     [label |-> "office", required |-> {"chair", "computer"},
      optional |-> {"desk", "book"}] >>

NoTrack == [cls |-> None, positions |-> <<>>, timestamps |-> <<>>,
            attributes |-> None]
\* the last call of analyze: its detections, the ids whose history was full
\* when it started, and what it raised and returned
NoScene == [objects |-> <<>>, full |-> {}, raised |-> None,
            scene_type |-> None, risks |-> {}]

InitScene ==
  /\ tracks = [i \in Ids |-> NoTrack]
  /\ clock = 0
  /\ scene = NoScene

\* detections of one class with the ids 1 and 2, with or without
\* attributes; the object 1 is seen in two places
TrackDetections ==
  [id : {1}, class : {"person"}, bbox : {NearBox, FarBox},
   attributes : {Absent} \cup Actions]
    \cup [id : {2}, class : {"person"}, bbox : {NearBox},
          attributes : Actions]
TrackInputs ==
  {<<>>} \cup {<<d>> : d \in TrackDetections}
    \cup {<<p[1], p[2]>> :
            p \in {q \in TrackDetections \X TrackDetections :
                     q[1].id # q[2].id}}

\* the i-th class of cs in the order of ClassOrder
RECURSIVE NthClass(_, _, _)
NthClass(cs, i, from) ==
  IF ClassOrder[from] \in cs
  THEN IF i = 1 THEN ClassOrder[from] ELSE NthClass(cs, i - 1, from + 1)
  ELSE NthClass(cs, i, from + 1)

\* detections of up to three different classes, ids 1.., each in one of the
\* three boxes, all with attributes
SceneInputs ==
  UNION {{[i \in 1..Cardinality(cs) |->
             [id |-> i, class |-> NthClass(cs, i, 1), bbox |-> box[i],
              attributes |-> "walking"]] :
            box \in [1..Cardinality(cs) -> {NearBox, EdgeBox, FarBox}]} :
         cs \in {c \in SUBSET Classes : Cardinality(c) <= 3}}

deque_append_unbounded(q, x, maxlen) == Append(q, x)

\* deque(maxlen=...).append(x): a full deque drops its oldest entry
deque_append(q, x, maxlen) ==
  IF maxlen = 0 THEN <<>>
  ELSE IF Len(q) >= maxlen THEN Append(Tail(q), x)
  ELSE Append(q, x)

\* the centre of a box: ((x1 + x2) / 2, (y1 + y2) / 2)
centre(bbox) == <<(bbox[1] + bbox[3]) \div 2, (bbox[2] + bbox[4]) \div 2>>

\* the body of the for loop of _update_tracks for one detection:
\* [tracks, raised]
update_one(trs, obj, now) ==
  LET known == trs[obj.id] # NoTrack
      made == [cls |-> obj.class, positions |-> <<>>, timestamps |-> <<>>,
               attributes |-> IF obj.attributes = Absent THEN EmptyAttrs
                              ELSE obj.attributes]
      kept == [trs[obj.id] EXCEPT !.attributes = obj.attributes]
      t == IF known THEN kept ELSE made
  IN IF known /\ obj.attributes = Absent
     THEN \* obj["attributes"]: KeyError
          [tracks |-> trs, raised |-> "KeyError"]
     ELSE [tracks |-> [trs EXCEPT ![obj.id] =
                        [t EXCEPT
                          !.positions = deque_append(@, centre(obj.bbox),
                                                     ContextWindow),
                          !.timestamps = deque_append(@, now, ContextWindow)]],
           raised |-> None]

RECURSIVE update_loop(_, _, _, _)
update_loop(trs, objs, i, now) ==
  IF i > Len(objs) THEN [tracks |-> trs, raised |-> None]
  ELSE LET r == update_one(trs, objs[i], now)
       IN IF r.raised # None THEN r
          ELSE update_loop(r.tracks, objs, i + 1, now)

\* _update_tracks(objects): the loop, then the tracks not seen are deleted
update_tracks(trs, objs, now) ==
  LET r == update_loop(trs, objs, 1, now)
      current_ids == {objs[i].id : i \in 1..Len(objs)}
  IN IF r.raised # None THEN r
     ELSE [tracks |-> [i \in Ids |->
                         IF i \in current_ids THEN r.tracks[i] ELSE NoTrack],
           raised |-> None]

\* any(cls in class_counts for cls in rule.get("optional", []))
optional_match(optional, class_counts) == optional \cap class_counts # {}

\* all(cls in class_counts for cls in rule["required"])
required_match(required, class_counts) == required \subseteq class_counts

\* _classify_scene(objects): the first rule that matches, else "unknown"
RECURSIVE classify_from(_, _)
classify_from(class_counts, i) ==
  IF i > Len(scene_rules) THEN "unknown"
  ELSE IF /\ required_match(scene_rules[i].required, class_counts)
          /\ optional_match(scene_rules[i].optional, class_counts)
       THEN scene_rules[i].label
       ELSE classify_from(class_counts, i + 1)

classify_scene(objs) ==
  classify_from({objs[i].class : i \in 1..Len(objs)}, 1)

assess_risks_returns(trs) == [raised |-> None, risks |-> {}]

\* _assess_risks(): after the loop over the tracks, which appends the
\* fast_moving tags to a local list, line 132 reads `frame`, which is no
\* parameter, local or global of the module: NameError
assess_risks(trs) == [raised |-> "NameError", risks |-> {}]

\* analyze(current_objects, frame): [tracks, raised, scene_type, risks]
analyze(trs, objs, now) ==
  LET u == update_tracks(trs, objs, now)
  IN IF u.raised # None
     THEN [tracks |-> u.tracks, raised |-> u.raised, scene_type |-> None,
           risks |-> {}]
     ELSE LET st == classify_scene(objs)
              rk == assess_risks(u.tracks)
          IN [tracks |-> u.tracks, raised |-> rk.raised, scene_type |-> st,
              risks |-> rk.risks]

\* one call of analyze by the frame handler (main.py:129)
AnalyzeCall(inputs, maxcalls) ==
  /\ clock < maxcalls
  /\ \E objs \in inputs :
       LET r == analyze(tracks, objs, clock + 1)
       IN /\ tracks' = r.tracks
          /\ scene' = [objects |-> objs,
                       full |-> {i \in Ids : Len(tracks[i].positions)
                                               >= ContextWindow},
                       raised |-> r.raised,
                       scene_type |-> r.scene_type, risks |-> r.risks]
  /\ clock' = clock + 1
  /\ UNCHANGED <<busvars, ttsvars, ctlvars, mainvars>>

--------------------------------------------------------------------------
(* The adaptive controller of VisionAssistant (src/main.py) and the        *)
(* ConfigManager (utils/config.py)                                         *)

MaxFrames == 40         \* frames in one behaviour of SpecCtl

Unset == <<0, 0>>       \* no processing.resolution in the configuration
DefaultResolution == <<1280, 720>>   \* config.get(..., (1280, 720))
StartResolutions ==
  {Unset, <<640, 480>>, <<800, 600>>, <<1280, 720>>, <<1920, 1080>>}
Latencies == {3, 7, 12}       \* tenths of a second
Throughputs == {10, 20}       \* frames per second

NoAdjust == [action |-> None, new_res |-> Unset, raised |-> None]

InitCtl(resolutions) ==
  /\ resolution \in resolutions
  /\ frame_counter = 0
  /\ adjusted = NoAdjust

Max2(a, b) == IF a >= b THEN a ELSE b
Min2(a, b) == IF a <= b THEN a ELSE b

\* self.config.get("processing.resolution", (1280, 720))
config_get(res) == IF res = Unset THEN DefaultResolution ELSE res

\* self.config.update(key, value): ConfigManager defines __init__,
\* _load_config, get and _start_file_watcher and no update: AttributeError,
\* the configuration stays as it is
config_update(res, value) == [resolution |-> res, raised |-> "AttributeError"]

\* _adjust_processing_params(action): [resolution, new_res, raised]
adjust_processing_params(res, action) ==
  LET current_res == config_get(res)
      new_res == IF action = "reduce"
                 THEN <<Max2(current_res[1] \div 2, 640),
                        Max2(current_res[2] \div 2, 480)>>
                 ELSE <<Min2(current_res[1] * 2, 1920),
                        Min2(current_res[2] * 2, 1080)>>
      u == config_update(res, new_res)
  IN [resolution |-> u.resolution, new_res |-> new_res, raised |-> u.raised]

\* the adjustment chosen every tenth frame: latency > 1.0 reduces,
\* latency < 0.5 and throughput < 15 increases
chosen_action(counter, latency, throughput) ==
  IF counter % 10 # 0 THEN None
  ELSE IF latency > 10 THEN "reduce"
  ELSE IF latency < 5 /\ throughput < 15 THEN "increase"
  ELSE None

\* _update_performance_metrics(start_time) at the end of a frame
UpdatePerformanceMetrics(maxframes) ==
  /\ frame_counter < maxframes
  /\ frame_counter' = frame_counter + 1
  /\ \E latency \in Latencies, throughput \in Throughputs :
       LET action == chosen_action(frame_counter + 1, latency, throughput)
           r == adjust_processing_params(resolution, action)
       IN IF action = None
          THEN UNCHANGED <<resolution, adjusted>>
          ELSE /\ resolution' = r.resolution
               /\ adjusted' = [action |-> action, new_res |-> r.new_res,
                               raised |-> r.raised]
  /\ UNCHANGED <<busvars, ttsvars, scenevars, mainvars>>

--------------------------------------------------------------------------
(* VisionAssistant (src/main.py): construction and start                   *)

MaxStartEvents == 2     \* alerts of the logger's hook in one behaviour of SpecStart

Retries == 5            \* retries = 5

MainEventTypes == {"FRAME_CAPTURED", "USER_COMMAND", "SYSTEM_ALERT"}

\* _register_event_handlers: the event types in the order of the three
\* subscribe calls; the identity of a handler is its place in that order
HandlerTypes == <<"FRAME_CAPTURED", "USER_COMMAND", "SYSTEM_ALERT">>
ProcessFrameHandler == 1      \* self._process_frame
UserCommandHandler == 2       \* self._handle_user_command
SystemAlertHandler == 3       \* self._handle_system_alert

\* the n-th subscribe call of _register_event_handlers (default priority)
register(subs, n) == subscribe_body(subs, HandlerTypes[n], n, 5)

IdlePipe == [stage |-> "idle", frame |-> 0, raised |-> FALSE]
\* the executor: the frames whose detection task is running, the tasks
\* that have finished with their outcome, and whether it was shut down
IdlePool == [inflight |-> {}, finished |-> {}, shutdown |-> FALSE]
NoFrameLog == [entered |-> 0, finished |-> 0, raised |-> FALSE,
               spoke |-> FALSE, alerts |-> 0, escaped |-> FALSE,
               stopped |-> FALSE]
IdleShutdown == [pc |-> "idle", done |-> <<>>, joined |-> FALSE,
                 waited |-> FALSE]

\* the assistant at the start of _wait_for_hardware_ready ("poll"), or
\* started ("running"); ready, sawready: what the camera reported at the
\* last poll, and whether it reported ready at any poll
InitAssistant(pc) ==
  /\ startup = [pc |-> pc, retries |-> Retries, waits |-> 0,
                registered |-> IF pc = "running" THEN Len(HandlerTypes) ELSE 0,
                ready |-> pc = "running", sawready |-> pc = "running"]
  /\ assistant = (pc = "running")
  /\ hw = [capturing |-> pc = "running", listening |-> pc = "running",
           released |-> FALSE]
  /\ pipe = IdlePipe
  /\ pool = IdlePool
  /\ eventdata = <<>>
  /\ framelog = <<>>
  /\ shut = IdleShutdown

\* the handler the dispatch thread is in
CurrentHandler == subscriptions[worker.event.type][worker.idx].handler

\* event_bus.publish(event, priority) with Event.data = data, by any thread:
\* the entry is in the heap list whether or not the comparison raised
publish_event(type, priority, data) ==
  /\ queue' = heappush(queue, [key |-> 0 - priority, id |-> nevents + 1,
                               type |-> type]).heap
  /\ nevents' = nevents + 1
  /\ eventdata' = Append(eventdata, data)

\* a publish by a thread that is not inside _process_frame
publish(type, priority, data) ==
  /\ publish_event(type, priority, data)
  /\ framelog' = Append(framelog, NoFrameLog)

\* the publish call raises TypeError
publish_raises(type, priority) ==
  heappush(queue, [key |-> 0 - priority, id |-> nevents + 1,
                   type |-> type]).raised

\* camera.is_ready(): what the camera reports at one poll
IsReady == BOOLEAN

keep_waiting_forever(ready, retries) == ~ready

\* the condition of the while loop of _wait_for_hardware_ready
keep_waiting(ready, retries) == ~ready /\ retries > 0

\* one test of `while not self.camera.is_ready() and retries > 0`, and the
\* body: time.sleep(1); retries -= 1
WaitForHardwareReady ==
  /\ startup.pc = "poll"
  /\ \E ready \in IsReady :
       startup' = IF keep_waiting(ready, startup.retries)
                  THEN [startup EXCEPT !.retries = @ - 1, !.waits = @ + 1,
                                       !.ready = ready]
                  ELSE [startup EXCEPT !.pc = "check", !.ready = ready,
                                       !.sawready = @ \/ ready]
  /\ UNCHANGED <<busvars, ttsvars, scenevars, ctlvars, assistant, hw, pipe,
                 pool, eventdata, framelog, shut>>

\* if not self.camera.is_ready(): raise RuntimeError - __init__ is left and
\* the process ends (main.py:270-273); else the pipeline objects are made
HardwareReadyCheck ==
  /\ startup.pc = "check"
  /\ \E ready \in IsReady :
       startup' = [startup EXCEPT !.pc = IF ready THEN "register" ELSE "failed",
                                  !.ready = ready,
                                  !.sawready = @ \/ ready]
  /\ UNCHANGED <<busvars, ttsvars, scenevars, ctlvars, assistant, hw, pipe,
                 pool, eventdata, framelog, shut>>

\* _register_event_handlers: one of its three subscribe calls
RegisterEventHandler ==
  /\ startup.pc = "register"
  /\ lock = None
  /\ subscriptions' = register(subscriptions, startup.registered + 1)
  /\ nsubs' = nsubs + 1
  /\ startup' = [startup EXCEPT
                   !.registered = @ + 1,
                   !.pc = IF startup.registered + 1 = Len(HandlerTypes)
                          THEN "constructed" ELSE "register"]
  /\ UNCHANGED <<queue, lock, worker, subcall, nevents, buslog, ttsvars,
                 scenevars, ctlvars, assistant, hw, pipe, pool, eventdata,
                 framelog, shut>>

\* start(): running = True; user_input.start_listening();
\* camera.start_capturing()
Start ==
  /\ startup.pc = "constructed"
  /\ startup' = [startup EXCEPT !.pc = "running"]
  /\ assistant' = TRUE
  /\ hw' = [hw EXCEPT !.listening = TRUE, !.capturing = TRUE]
  /\ UNCHANGED <<busvars, ttsvars, scenevars, ctlvars, pipe, pool, eventdata,
                 framelog, shut>>

\* ThreadSafeLogger._global_except_hook: an uncaught exception of any
\* thread is published as a CRITICAL alert with priority 1
LoggerHookPublish(maxevents) ==
  /\ nevents < maxevents
  /\ startup.pc # "failed"
  /\ publish("SYSTEM_ALERT", 1, "CRITICAL")
  /\ UNCHANGED <<subscriptions, lock, worker, subcall, nsubs, buslog, ttsvars,
                 scenevars, ctlvars, startup, assistant, hw, pipe, pool, shut>>

\* _handle_system_alert(event) on the dispatch thread
HandleSystemAlertEvent(maxtasks) ==
  /\ worker.pc = "handler"
  /\ CurrentHandler = SystemAlertHandler
  /\ IF eventdata[worker.event.id] \in SpokenLevels
     THEN speak(AlertText, AlertPriority, maxtasks) /\ UNCHANGED lastcall
     ELSE UNCHANGED ttsvars
  /\ worker' = [worker EXCEPT !.pc = "iter"]
  /\ UNCHANGED <<subscriptions, queue, lock, subcall, nsubs, nevents, buslog,
                 scenevars, ctlvars, mainvars>>

--------------------------------------------------------------------------
(* VisionAssistant (src/main.py): the frame pipeline and the handlers      *)

MaxPipeEvents == 4      \* events published in one behaviour of SpecPipe

\* the commands of _start_processing and _stop_processing
Commands == {"start", "stop"}

\* what the detector returns for a frame
PipeDetections ==
  {<<>>, <<[id |-> 1, class |-> "person", bbox |-> NearBox,
           attributes |-> "walking"]>>}

\* the three subscriptions of _register_event_handlers
Registered ==
  register(register(register([t \in MainEventTypes |-> <<>>], 1), 2), 3)

\* the camera's capture thread publishes a frame event
CameraCapture(maxevents) ==
  /\ hw.capturing
  /\ ~hw.released
  /\ shut.pc # "exited"
  /\ nevents < maxevents
  /\ publish("FRAME_CAPTURED", 5, "frame")
  /\ UNCHANGED <<subscriptions, lock, worker, subcall, nsubs, buslog, ttsvars,
                 scenevars, ctlvars, startup, assistant, hw, pipe, pool, shut>>

\* the command listener publishes a command event
CommandListener(maxevents) ==
  /\ hw.listening
  /\ shut.pc # "exited"
  /\ nevents < maxevents
  /\ \E command \in Commands : publish("USER_COMMAND", 5, command)
  /\ UNCHANGED <<subscriptions, lock, worker, subcall, nsubs, buslog, ttsvars,
                 scenevars, ctlvars, startup, assistant, hw, pipe, pool, shut>>

\* _handle_user_command(event): _start_processing or _stop_processing
HandleUserCommandEvent(maxtasks) ==
  /\ worker.pc = "handler"
  /\ CurrentHandler = UserCommandHandler
  /\ IF eventdata[worker.event.id] = "stop"
     THEN \* running = False; camera.stop_capturing(); tts.speak(...)
          /\ assistant' = FALSE
          /\ hw' = [hw EXCEPT !.capturing = FALSE]
          /\ speak(ReplyText, DefaultPriority, maxtasks)
          /\ UNCHANGED lastcall
     ELSE IF ~assistant
     THEN \* running = True; camera.start_capturing(); tts.speak(...)
          /\ assistant' = TRUE
          /\ hw' = [hw EXCEPT !.capturing = TRUE]
          /\ speak(ReplyText, DefaultPriority, maxtasks)
          /\ UNCHANGED lastcall
     ELSE UNCHANGED <<assistant, hw, ttsvars>>
  /\ worker' = [worker EXCEPT !.pc = "iter"]
  /\ UNCHANGED <<subscriptions, queue, lock, subcall, nsubs, nevents, buslog,
                 scenevars, ctlvars, startup, pipe, pool, eventdata, framelog,
                 shut>>

\* _process_frame(event) is called: start_time, frame = event.data["frame"]
FrameBegin ==
  /\ worker.pc = "handler"
  /\ CurrentHandler = ProcessFrameHandler
  /\ pipe.stage = "idle"
  /\ pipe' = [stage |-> "preprocess", frame |-> worker.event.id,
              raised |-> FALSE]
  /\ framelog' = [framelog EXCEPT ![worker.event.id] =
                    [@ EXCEPT !.entered = @ + 1, !.stopped = ~assistant]]
  /\ UNCHANGED <<busvars, ttsvars, scenevars, ctlvars, startup, assistant, hw,
                 pool, eventdata, shut>>

\* the statements of the try block in their order
next_stage(stage) ==
  CASE stage = "preprocess" -> "submit"
    [] stage = "submit" -> "result"
    [] stage = "result" -> "analyze"
    [] stage = "analyze" -> "narrate"
    [] stage = "narrate" -> "speak"
    [] stage = "speak" -> "metrics"
    [] stage = "metrics" -> "return"

stage_after_swallowed(stage, raised) == next_stage(stage)

\* where the handler is after a statement of the try block: an exception
\* leaves the block for `except Exception`
stage_after(stage, raised) == IF raised THEN "except" ELSE next_stage(stage)

\* the handler goes on: pipe and the log of the frame after a statement
Proceed(raised) ==
  /\ pipe' = [pipe EXCEPT !.stage = stage_after(pipe.stage, raised),
                          !.raised = @ \/ raised]
  /\ framelog' = [framelog EXCEPT ![pipe.frame].raised = @ \/ raised]
  /\ UNCHANGED worker

\* the handler is left, by return or by an exception that _dispatch logs
Leave(escaped, published) ==
  /\ pipe' = IdlePipe
  /\ framelog' = [framelog EXCEPT ![pipe.frame] =
                    [@ EXCEPT !.finished = @ + 1,
                              !.escaped = @ \/ escaped,
                              !.alerts = @ + IF published THEN 1 ELSE 0]]
  /\ worker' = [worker EXCEPT !.pc = "iter"]

future_done_unchecked(p, frame) == TRUE

\* detection_future.result() returns or raises once the task has finished
future_done(p, frame) == \E f \in p.finished : f.frame = frame

\* preprocessor.process(frame): returns or raises
StagePreprocess ==
  /\ \E ok \in BOOLEAN : Proceed(~ok)
  /\ UNCHANGED <<subscriptions, queue, lock, subcall, nsubs, nevents, buslog,
                 ttsvars, scenevars, ctlvars, startup, assistant, hw, pool,
                 eventdata, shut>>

\* executor.submit(detector.detect, processed_frame): RuntimeError after
\* the executor has been shut down
StageSubmit ==
  /\ IF pool.shutdown
     THEN Proceed(TRUE) /\ UNCHANGED pool
     ELSE Proceed(FALSE) /\ pool' = [pool EXCEPT !.inflight = @ \cup {pipe.frame}]
  /\ UNCHANGED <<subscriptions, queue, lock, subcall, nsubs, nevents, buslog,
                 ttsvars, scenevars, ctlvars, startup, assistant, hw,
                 eventdata, shut>>

\* detection_future.result(): waits, then the result or the exception of
\* detect
StageResult ==
  /\ future_done(pool, pipe.frame)
  /\ Proceed([frame |-> pipe.frame, outcome |-> "raise"] \in pool.finished)
  /\ UNCHANGED <<subscriptions, queue, lock, subcall, nsubs, nevents, buslog,
                 ttsvars, scenevars, ctlvars, startup, assistant, hw, pool,
                 eventdata, shut>>

\* scene_analyzer.analyze(detection_results, processed_frame)
StageAnalyze ==
  /\ \E objs \in PipeDetections :
       LET r == analyze(tracks, objs, clock + 1)
       IN /\ tracks' = r.tracks
          /\ scene' = [objects |-> objs,
                       full |-> {i \in Ids : Len(tracks[i].positions)
                                               >= ContextWindow},
                       raised |-> r.raised,
                       scene_type |-> r.scene_type, risks |-> r.risks]
          /\ Proceed(r.raised # None)
  /\ clock' = clock + 1
  /\ UNCHANGED <<subscriptions, queue, lock, subcall, nsubs, nevents, buslog,
                 ttsvars, ctlvars, startup, assistant, hw, pool, eventdata,
                 shut>>

\* narrator.generate(scene_data): returns or raises
StageNarrate ==
  /\ \E ok \in BOOLEAN : Proceed(~ok)
  /\ UNCHANGED <<subscriptions, queue, lock, subcall, nsubs, nevents, buslog,
                 ttsvars, scenevars, ctlvars, startup, assistant, hw, pool,
                 eventdata, shut>>

\* tts.speak(narration, priority=scene_data.get("priority", 1))
StageSpeak(maxtasks) ==
  /\ \E narration \in Narrations : speak(narration, NarrationPriority, maxtasks)
  /\ pipe' = [pipe EXCEPT !.stage = stage_after(pipe.stage, FALSE)]
  /\ framelog' = [framelog EXCEPT ![pipe.frame].spoke = TRUE]
  /\ UNCHANGED <<busvars, lastcall, scenevars, ctlvars, startup, assistant, hw,
                 pool, eventdata, shut>>

\* _update_performance_metrics(start_time); then the handler returns, or
\* the AttributeError of the adjustment leaves the try block
StageMetrics ==
  /\ frame_counter' = frame_counter + 1
  /\ \E latency \in Latencies, throughput \in Throughputs :
       LET action == chosen_action(frame_counter + 1, latency, throughput)
           r == adjust_processing_params(resolution, action)
       IN IF action = None
          THEN /\ UNCHANGED <<resolution, adjusted>>
               /\ Leave(FALSE, FALSE)
          ELSE /\ resolution' = r.resolution
               /\ adjusted' = [action |-> action, new_res |-> r.new_res,
                               raised |-> r.raised]
               /\ IF r.raised # None THEN Proceed(TRUE)
                  ELSE Leave(FALSE, FALSE)
  /\ UNCHANGED <<subscriptions, queue, lock, subcall, nsubs, buslog, nevents,
                 ttsvars, scenevars, startup, assistant, hw, pool, eventdata,
                 shut>>

\* except Exception: logged; event_bus.publish(create_alert_event("Main",
\* "ERROR", ...)) with the default priority; a TypeError of the publish
\* leaves the handler
StageExcept ==
  /\ publish_event("SYSTEM_ALERT", 5, "ERROR")
  /\ pipe' = IdlePipe
  /\ worker' = [worker EXCEPT !.pc = "iter"]
  /\ LET escaped == publish_raises("SYSTEM_ALERT", 5)
     IN framelog' = Append(
          [framelog EXCEPT ![pipe.frame] =
             [@ EXCEPT !.finished = @ + 1,
                       !.escaped = @ \/ escaped,
                       !.alerts = @ + IF escaped THEN 0 ELSE 1]],
          NoFrameLog)
  /\ UNCHANGED <<subscriptions, lock, subcall, nsubs, buslog, ttsvars,
                 scenevars, ctlvars, startup, assistant, hw, pool, shut>>

\* the next statement of _process_frame on the dispatch thread; the
\* statements after analyze are reached when analyze returns
ProcessFrameStep(maxtasks) ==
  /\ worker.pc = "handler"
  /\ CurrentHandler = ProcessFrameHandler
  /\ pipe.stage # "idle"
  /\ CASE pipe.stage = "preprocess" -> StagePreprocess
       [] pipe.stage = "submit" -> StageSubmit
       [] pipe.stage = "result" -> StageResult
       [] pipe.stage = "analyze" -> StageAnalyze
       [] pipe.stage = "narrate" -> StageNarrate
       [] pipe.stage = "speak" -> StageSpeak(maxtasks)
       [] pipe.stage = "metrics" -> StageMetrics
       [] pipe.stage = "except" -> StageExcept

\* a thread of the pool runs detector.detect to its end: a result or an
\* exception
DetectRun ==
  /\ \E frame \in pool.inflight, outcome \in {"ok", "raise"} :
       pool' = [pool EXCEPT
                  !.inflight = @ \ {frame},
                  !.finished = @ \cup {[frame |-> frame, outcome |-> outcome]}]
  /\ UNCHANGED <<busvars, ttsvars, scenevars, ctlvars, startup, assistant, hw,
                 pipe, eventdata, framelog, shut>>

--------------------------------------------------------------------------
(* VisionAssistant._graceful_shutdown (src/main.py), the handler of        *)
(* SIGINT and SIGTERM on the main thread                                   *)

MaxShutEvents == 1      \* events published in one behaviour of SpecShut

\* the handler goes on to its next statement
shutdown_step(pc, name) ==
  [shut EXCEPT !.pc = pc, !.done = Append(@, name)]

\* the signal arrives: logged; self.running = False
ShutdownBegin ==
  /\ shut.pc = "idle"
  /\ assistant' = FALSE
  /\ shut' = shutdown_step("release", "running")
  /\ UNCHANGED <<busvars, ttsvars, scenevars, ctlvars, startup, hw, pipe, pool,
                 eventdata, framelog>>

\* self.camera.release()
ShutdownRelease ==
  /\ shut.pc = "release"
  /\ hw' = [hw EXCEPT !.released = TRUE]
  /\ shut' = shutdown_step("listener", "camera")
  /\ UNCHANGED <<busvars, ttsvars, scenevars, ctlvars, startup, assistant,
                 pipe, pool, eventdata, framelog>>

\* self.user_input.stop_listening()
ShutdownListener ==
  /\ shut.pc = "listener"
  /\ hw' = [hw EXCEPT !.listening = FALSE]
  /\ shut' = shutdown_step("tts", "listener")
  /\ UNCHANGED <<busvars, ttsvars, scenevars, ctlvars, startup, assistant,
                 pipe, pool, eventdata, framelog>>

\* self.tts.stop(): running = False; sd.stop(); the join is next
ShutdownTTS ==
  /\ shut.pc = "tts"
  /\ running' = FALSE
  /\ playing' = NoItem
  /\ shut' = [shut EXCEPT !.pc = "join"]
  /\ UNCHANGED <<busvars, audio_queue, cache, config, tasks, caller, consumer,
                 nspeak, temp_audio, lastcall, scenevars, ctlvars, startup,
                 assistant, hw, pipe, pool, eventdata, framelog>>

\* consumer_thread.join(timeout=1) returns: the consumer has ended, or the
\* second has passed
ShutdownJoin ==
  /\ shut.pc = "join"
  /\ shut' = [shutdown_step("pool", "tts") EXCEPT
               !.joined = consumer.pc = "exited"]
  /\ UNCHANGED <<busvars, ttsvars, scenevars, ctlvars, startup, assistant, hw,
                 pipe, pool, eventdata, framelog>>

\* self.executor.shutdown(wait=True): no task is accepted from here on
ShutdownPool ==
  /\ shut.pc = "pool"
  /\ pool' = [pool EXCEPT !.shutdown = TRUE]
  /\ shut' = [shut EXCEPT !.pc = "wait", !.waited = pool.inflight # {}]
  /\ UNCHANGED <<busvars, ttsvars, scenevars, ctlvars, startup, assistant, hw,
                 pipe, eventdata, framelog>>

pool_drained_nowait(p) == TRUE

\* shutdown(wait=True) joins the threads of the pool: it returns when no
\* task is running
pool_drained(p) == p.inflight = {}

ShutdownWait ==
  /\ shut.pc = "wait"
  /\ pool_drained(pool)
  /\ shut' = shutdown_step("exit", "pool")
  /\ UNCHANGED <<busvars, ttsvars, scenevars, ctlvars, startup, assistant, hw,
                 pipe, pool, eventdata, framelog>>

\* time.sleep(1); logged; exit(0): the process ends, and with it its daemon
\* threads - the dispatch thread, the consumer, the synthesis threads - and
\* the stream of the output device
ShutdownExit ==
  /\ shut.pc = "exit"
  /\ shut' = shutdown_step("exited", "exit")
  /\ worker' = [worker EXCEPT !.pc = "exited"]
  /\ consumer' = [consumer EXCEPT !.pc = "exited"]
  /\ tasks' = EmptyBag
  /\ caller' = IdleCaller
  /\ playing' = NoItem
  /\ pipe' = IdlePipe
  /\ UNCHANGED <<subscriptions, queue, lock, subcall, nsubs, nevents, buslog,
                 audio_queue, cache, config, running, nspeak, temp_audio,
                 lastcall, scenevars, ctlvars, startup, assistant, hw, pool,
                 eventdata, framelog>>

--------------------------------------------------------------------------
Init ==
  /\ InitBus /\ InitTTS(AnyConfig) /\ InitScene /\ InitCtl({Unset})
  /\ InitAssistant("running")
InitDefault ==
  /\ InitBus /\ InitTTS({DefaultConfig}) /\ InitScene /\ InitCtl({Unset})
  /\ InitAssistant("running")
InitCtlAny ==
  /\ InitBus /\ InitTTS({DefaultConfig}) /\ InitScene
  /\ InitCtl(StartResolutions)
  /\ InitAssistant("running")
\* the process at the start of _wait_for_hardware_ready: the bus, the
\* logger and the speech service have been made
InitStart ==
  /\ InitBusOf(MainEventTypes) /\ InitTTS({DefaultConfig}) /\ InitScene
  /\ InitCtl({Unset})
  /\ InitAssistant("poll")

NextBus ==
  \/ \E t \in SubThreads : SubscribeCall(t)
  \/ \E t \in SubThreads : SubscribeLocked(t)
  \/ Publish(EventTypes, PubPriorities, MaxEvents)
  \/ WorkerGet
  \/ WorkerDispatch
  \/ WorkerIter
  \/ HandlerSubscribe
  \/ HandlerReturn
  \/ HandlerRaise

\* the bus with few events: the lock, the subscribers and the handlers
NextLock ==
  \/ \E t \in SubThreads : SubscribeCall(t)
  \/ \E t \in SubThreads : SubscribeLocked(t)
  \/ Publish(EventTypes, PubPriorities, MaxLockEvents)
  \/ WorkerGet
  \/ WorkerDispatch
  \/ WorkerIter
  \/ HandlerSubscribe
  \/ HandlerReturn
  \/ HandlerRaise

\* the queue alone: events of one type, nobody subscribed
NextQueue ==
  \/ Publish({"SYSTEM_ALERT"}, QueuePriorities, MaxQueued)
  \/ WorkerGet
  \/ WorkerDispatch
  \/ WorkerIter


\* the speech service fed by the command handler alone, the default
\* configuration (online engine: the offline steps are not reached)
NextCap ==
  \/ HandleUserCommand(MaxSpeakCap, MaxTasksCap)
  \/ TTSSteps

\* the speech service fed by the three handlers, the default configuration
NextOrd ==
  \/ HandleSystemAlert(MaxSpeakOrd, MaxTasks)
  \/ HandleUserCommand(MaxSpeakOrd, MaxTasks)
  \/ ProcessFrameSpeak(MaxSpeakOrd, MaxTasks)
  \/ TTSSteps

\* the producers of the speech service - speak called by any client and the
\* synthesis threads - with every configuration; the queue is not drained
NextSynth ==
  \/ SpeakRequest(MaxSpeakSynth, MaxTasks)
  \/ CallerPut
  \/ TaskSynthesize
  \/ TaskOfflineRead
  \/ TaskAddToCache
  \/ TaskPut
  \/ TaskExit

SpecBus == InitDefault /\ [][NextBus]_vars
SpecLock == InitDefault /\ [][NextLock]_vars
SpecQueue == InitDefault /\ [][NextQueue]_vars
SpecCap == InitDefault /\ [][NextCap]_vars
SpecOrd == InitDefault /\ [][NextOrd]_vars
SpecSynth == Init /\ [][NextSynth]_vars

\* the tracker: analyze called frame after frame
NextTrack == AnalyzeCall(TrackInputs, MaxCalls)
\* the classifier and the risk tags: analyze called on detections of many
\* classes and places
NextScene == AnalyzeCall(SceneInputs, MaxSceneCalls)
\* the adaptive controller, from any resolution within the bounds
NextCtl == UpdatePerformanceMetrics(MaxFrames)

\* the assistant started: the bus with the three handlers subscribed
InitPipe ==
  /\ subscriptions = Registered
  /\ queue = <<>>
  /\ lock = None
  /\ worker = IdleWorker
  /\ subcall = [t \in SubThreads |-> NoCall]
  /\ nsubs = Len(HandlerTypes)
  /\ nevents = 0
  /\ buslog = EmptyLog
  /\ InitTTS({DefaultConfig}) /\ InitScene /\ InitCtl({Unset})
  /\ InitAssistant("running")

\* the camera, the command listener, the dispatch thread with the three
\* handlers of the assistant, and the detection pool
NextPipe ==
  \/ CameraCapture(MaxPipeEvents)
  \/ CommandListener(MaxPipeEvents)
  \/ WorkerGet
  \/ WorkerDispatch
  \/ WorkerIter
  \/ FrameBegin
  \/ ProcessFrameStep(MaxPipeEvents)
  \/ DetectRun
  \/ HandleUserCommandEvent(MaxPipeEvents)
  \/ HandleSystemAlertEvent(MaxPipeEvents)

SpecPipe == InitPipe /\ [][NextPipe]_vars

\* the assistant started, after a command has been answered: the reply is
\* in the cache, and it waits in the queue or has been played
InitShut ==
  /\ subscriptions = Registered
  /\ queue = <<>>
  /\ lock = None
  /\ worker = IdleWorker
  /\ subcall = [t \in SubThreads |-> NoCall]
  /\ nsubs = Len(HandlerTypes)
  /\ nevents = 0
  /\ buslog = EmptyLog
  /\ audio_queue \in {<<>>, <<[audio |-> ReplyText,
                               priority |-> DefaultPriority]>>}
  /\ cache = [t \in CacheKeys |-> IF t = ReplyText THEN ReplyText ELSE None]
  /\ config = DefaultConfig
  /\ running = TRUE
  /\ tasks = EmptyBag
  /\ caller = IdleCaller
  /\ consumer = [pc |-> "loop", items |-> <<>>, idx |-> 0]
  /\ playing = NoItem
  /\ nspeak = 1
  /\ temp_audio = None
  /\ lastcall = NoSpeak
  /\ InitScene /\ InitCtl({Unset})
  /\ InitAssistant("running")

\* the started assistant with its threads - the camera, the listener, the
\* dispatch thread, the pool, the consumer and the output device - and the
\* signal handler on the main thread; every reply is found in the cache, so
\* no synthesis thread is started
NextShut ==
  \/ CameraCapture(MaxShutEvents)
  \/ CommandListener(MaxShutEvents)
  \/ WorkerGet
  \/ WorkerDispatch
  \/ WorkerIter
  \/ FrameBegin
  \/ ProcessFrameStep(MaxShutEvents)
  \/ DetectRun
  \/ HandleUserCommandEvent(MaxShutEvents)
  \/ HandleSystemAlertEvent(MaxShutEvents)
  \/ CallerPut
  \/ ConsumerLoop
  \/ ConsumerDrain
  \/ ConsumerPlay
  \/ ConsumerWait
  \/ ConsumerError
  \/ ConsumerSleep
  \/ DeviceFinish
  \/ ShutdownBegin
  \/ ShutdownRelease
  \/ ShutdownListener
  \/ ShutdownTTS
  \/ ShutdownJoin
  \/ ShutdownPool
  \/ ShutdownWait
  \/ ShutdownExit

SpecShut == InitShut /\ [][NextShut]_vars

\* the main thread runs the signal handler to its end, and a thread of the
\* pool runs the detection it was given to its end
FairSpecShut ==
  /\ SpecShut
  /\ WF_vars(ShutdownRelease \/ ShutdownListener \/ ShutdownTTS
             \/ ShutdownJoin \/ ShutdownPool \/ ShutdownWait \/ ShutdownExit)
  /\ WF_vars(DetectRun)

\* construction and start of the assistant, with the dispatch thread and
\* the logger's hook
NextStart ==
  \/ WaitForHardwareReady
  \/ HardwareReadyCheck
  \/ RegisterEventHandler
  \/ Start
  \/ LoggerHookPublish(MaxStartEvents)
  \/ WorkerGet
  \/ WorkerDispatch
  \/ WorkerIter
  \/ HandleSystemAlertEvent(MaxStartEvents)

SpecStart == InitStart /\ [][NextStart]_vars

SpecTrack == InitDefault /\ [][NextTrack]_vars
SpecScene == InitDefault /\ [][NextScene]_vars
SpecCtl == InitCtlAny /\ [][NextCtl]_vars


\* the scheduling of the speech service: the consumer thread and the
\* producers run, and the device reaches the end of what it plays
FairSpecCap ==
  /\ SpecCap
  /\ WF_vars(ConsumerLoop \/ ConsumerDrain \/ ConsumerPlay \/ ConsumerWait
             \/ ConsumerSleep)
  /\ WF_vars(DeviceFinish)
  /\ WF_vars(CallerPut)
  /\ WF_vars(TaskPut)

--------------------------------------------------------------------------
(* Properties                                                              *)

SnapshotHandlers == {buslog.atdispatch[i].handler : i \in 1..Len(buslog.atdispatch)}
SnapshotPriority(h) ==
  (CHOOSE e \in {buslog.atdispatch[i] : i \in 1..Len(buslog.atdispatch)} :
     e.handler = h).priority
TimesInvoked(h) ==
  Cardinality({j \in 1..Len(buslog.invoked) : buslog.invoked[j] = h})

\* C1: when _dispatch has returned for an event, every handler that was
\* subscribed to its type when the dispatch began has been invoked exactly
\* once, and those invocations came in descending subscription priority.
C1_EachSubscriberOnceInOrder ==
  buslog.completed =>
    /\ \A h \in SnapshotHandlers : TimesInvoked(h) = 1
    /\ \A j, k \in 1..Len(buslog.invoked) :
         (j < k /\ buslog.invoked[j] \in SnapshotHandlers
                /\ buslog.invoked[k] \in SnapshotHandlers)
           => SnapshotPriority(buslog.invoked[j]) >= SnapshotPriority(buslog.invoked[k])

\* C2: a raising handler does not keep the other subscribers of the event
\* from being invoked, the dispatch loop stays in its loop, and no event
\* published after the raise is dropped before it is dispatched.
C2_RaiseIsolated ==
  /\ (buslog.completed /\ buslog.raisedin)
       => \A h \in SnapshotHandlers : TimesInvoked(h) >= 1
  /\ worker.pc \in {"get", "dispatch", "iter", "handler"}
  /\ ~buslog.lostafter

\* C3: whenever the dispatch loop pops an event, no event left in the queue
\* was published with a strictly higher priority.
C3_PopsHighestPriority ==
  [][(worker.pc = "get" /\ worker'.pc = "dispatch")
       => \A i \in 1..Len(queue') : 0 - queue'[i].key <= 0 - worker'.event.key]_vars

\* C4, as claimed: the lock is not held while a handler executes, so a
\* subscribe call of another thread made meanwhile can take the lock.
C4_LockFreeDuringHandler ==
  worker.pc = "handler" => lock = None

\* C4, amended: the dispatch thread holds the lock from the lookup of the
\* handlers until the last handler has returned, and a subscribe call of
\* another thread completes only when no dispatch is under way.
C4_LockHeldDuringDispatch ==
  /\ [](worker.pc \in {"iter", "handler"} => lock = "worker")
  /\ [][\A t \in SubThreads :
          (subcall[t] # NoCall /\ subcall'[t] = NoCall)
            => worker.pc \notin {"iter", "handler"}]_vars

\* a subscribe call of another thread is waiting while a handler executes
C4_Witness ==
  /\ worker.pc = "handler"
  /\ \E t \in SubThreads : subcall[t] # NoCall

\* C5: the audio queue never holds more than Capacity items.
C5_QueueWithinCapacity == Len(audio_queue) <= Capacity

\* the queue is full and a synthesis thread has arrived at its put
C5_Witness ==
  /\ Len(audio_queue) = Capacity
  /\ TasksAt("put") # {}

BlockedCaller == caller.pc = "put" /\ Len(audio_queue) = Capacity
BlockedTask == TasksAt("put") # {} /\ Len(audio_queue) = Capacity

\* C6: while the queue holds Capacity items a producer at its put stays
\* there and adds nothing - the only change of the queue is the consumer
\* taking its head; and as long as the service is running every blocked
\* producer is eventually unblocked.
C6_FullQueueBlocksProducer ==
  /\ [][Len(audio_queue) = Capacity =>
          /\ audio_queue' = audio_queue \/ audio_queue' = Tail(audio_queue)
          /\ (caller.pc = "put" => caller' = caller)
          /\ \A r \in TasksAt("put") : CopiesIn(r, tasks') >= CopiesIn(r, tasks)]_vars
  /\ (BlockedCaller ~> (caller.pc = "idle" \/ ~running))
  /\ (BlockedTask ~> (TasksAt("put") = {} \/ ~running))

\* the caller of speak is blocked at its put while the consumer is running
C6_Witness == BlockedCaller /\ running /\ consumer.pc \in {"play", "wait"}

\* C7: speak returns without blocking its caller whatever the state of the
\* audio queue: the calling thread is never held at the put of speak.
C7_SpeakNeverBlocksCaller ==
  caller.pc = "put" => put_ready(audio_queue)

IsSortedDesc(items) ==
  \A i, j \in 1..Len(items) : i < j => items[i].priority >= items[j].priority

\* C8: the batch being played is in descending priority order and is played
\* in that order; the consumer starts an item only when the device is idle;
\* while the batch is played it does not change and what is enqueued
\* meanwhile stays in the queue.
C8_BatchPlayedInOrder ==
  /\ [](consumer.pc \in {"play", "wait"} => IsSortedDesc(consumer.items))
  /\ [](playing # NoItem =>
          consumer.pc = "wait" /\ playing = consumer.items[consumer.idx])
  /\ [][(consumer.pc = "play" /\ consumer'.pc = "wait")
          => playing = NoItem /\ playing' = consumer.items[consumer.idx]]_vars
  /\ [][(consumer.pc = "wait" /\ consumer'.pc = "play")
          => playing = NoItem /\ consumer'.idx = consumer.idx + 1]_vars
  /\ [][(consumer.pc \in {"play", "wait"} /\ consumer'.pc \in {"play", "wait"})
          => /\ consumer'.items = consumer.items
             /\ Len(audio_queue') >= Len(audio_queue)
             /\ SubSeq(audio_queue', 1, Len(audio_queue)) = audio_queue]_vars

\* the second item of a batch of different priorities is being played while
\* an item enqueued after the drain waits in the queue
C8_Witness ==
  /\ consumer.pc = "wait"
  /\ consumer.idx = 2
  /\ playing = consumer.items[2]
  /\ consumer.items[1].priority > consumer.items[2].priority
  /\ audio_queue # <<>>

Requests ==
  {audio_queue[i] : i \in 1..Len(audio_queue)}
    \cup {consumer.items[i] : i \in 1..Len(consumer.items)}
    \cup {[audio |-> r.text, priority |-> r.priority] : r \in BagToSet(tasks)}
    \cup (IF caller.pc = "put" THEN {caller.item} ELSE {})

\* C9: the request of a HIGH or CRITICAL alert has a priority at least that
\* of every narration and command-reply request, and in a batch it is
\* played before them.
C9_AlertPriorityMaximal ==
  /\ \A a, b \in Requests :
       (a.audio = AlertText /\ b.audio \in {NarrationText, ReplyText})
         => a.priority >= b.priority
  /\ consumer.pc \in {"play", "wait"} =>
       \A i, j \in 1..Len(consumer.items) :
         (i < j /\ consumer.items[j].audio = AlertText)
           => consumer.items[i].audio = AlertText

\* C10: a task whose online engine failed has attempted the offline engine
\* exactly once, and no task attempts an engine more than once.
C10_OfflineFallbackOnce ==
  \A r \in BagToSet(tasks) :
    /\ r.online <= 1 /\ r.offline <= 1
    /\ (r.pc \in {"cache", "put", "exit"} /\ r.onlinefailed) => r.offline = 1

--------------------------------------------------------------------------
(* TTSService: synthesis, cache (SpecSynth)                                *)

Became(r, pc) == r.pc = pc /\ CopiesIn(r, tasks') > CopiesIn(r, tasks)
Left(r) == CopiesIn(r, tasks') < CopiesIn(r, tasks)
IsWaveform(file) == file \notin {None, Corrupt}
SpeakStep == nspeak' = nspeak + 1

\* C11: a task whose engine call failed has no waveform and never reaches
\* the cache write or the put; the step in which it fails and the step in
\* which it ends change neither the queue nor the cache nor the caller of
\* speak; nothing without a waveform is ever in the queue.
C11_FailedSynthesisDropped ==
  /\ [](\A r \in BagToSet(tasks) :
          r.audio = None => r.pc \in {"synth", "offread", "exit"})
  /\ [](\A i \in 1..Len(audio_queue) : audio_queue[i].audio # None)
  /\ [][\A r \in BagToSet(tasks') :
          (Became(r, "exit") /\ r.audio = None)
            => UNCHANGED <<audio_queue, cache, caller>>]_vars
  /\ [][\A r \in TasksAt("exit") :
          (Left(r) /\ r.audio = None)
            => UNCHANGED <<audio_queue, cache, caller>>]_vars

\* a task has ended its engine call without a waveform
C11_Witness ==
  \E r \in TasksAt("exit") : r.audio = None /\ r.online + r.offline = 1

\* C12, as claimed: a speak call for a text whose waveform is in the cache
\* goes to the put with that waveform and the priority of this call, and
\* starts no synthesis task.
C12_SecondCallUsesCache ==
  [][(SpeakStep /\ IsWaveform(cache[lastcall'.text]))
       => /\ tasks' = tasks
          /\ caller' = [pc |-> "put",
                        item |-> [audio |-> cache[lastcall'.text],
                                  priority |-> lastcall'.priority]]]_vars

\* C12, amended: the same provided caching is switched on
\* (tts.cache_enabled); and what the cache holds under a text is what a
\* synthesis task of that text stored, unless the write failed.
C12_SecondCallUsesCacheIfEnabled ==
  /\ [][(SpeakStep /\ IsWaveform(cache[lastcall'.text]) /\ config.cache_enabled)
          => /\ tasks' = tasks
             /\ caller' = [pc |-> "put",
                           item |-> [audio |-> cache[lastcall'.text],
                                     priority |-> lastcall'.priority]]]_vars
  /\ [][\A t \in CacheKeys :
          cache'[t] # cache[t]
            => \E r \in TasksAt("cache") :
                 r.text = t /\ cache'[t] \in {r.audio, Corrupt}]_vars

\* the second call for a text, with another priority than the first, waits
\* at its put with the cached waveform
C12_Witness ==
  /\ nspeak = 2
  /\ caller.pc = "put"
  /\ caller.item = [audio |-> cache[lastcall.text], priority |-> 2]
  /\ \E i \in 1..Len(audio_queue) :
       audio_queue[i] = [audio |-> cache[lastcall.text], priority |-> 0]

\* C13: a speak call with an empty or whitespace-only text changes neither
\* the queue nor the cache nor the set of synthesis tasks nor the position
\* of its caller.
C13_BlankSpeakNoOp ==
  [][(SpeakStep /\ lastcall'.text \in {"", "   "})
       => UNCHANGED <<audio_queue, cache, tasks, caller, temp_audio>>]_vars

\* speak was called once, with a whitespace-only text
C13_Witness ==
  /\ nspeak = 1
  /\ lastcall.text = "   "
  /\ tasks = EmptyBag
  /\ audio_queue = <<>>

\* C14: the waveform stored under a text and the waveform a task holds for
\* its text are waveforms synthesized for that text.
C14_CacheNeverCorrupted ==
  /\ \A t \in CacheKeys : cache[t] \in {None, Corrupt, t}
  /\ \A r \in BagToSet(tasks) : r.audio \in {None, r.text}
  /\ \A i \in 1..Len(audio_queue) : audio_queue[i].audio \in Texts

\* C15: a speak call for a text whose cache file cannot be read starts a
\* synthesis task like a miss; and a task that has its waveform goes on to
\* the put with it and its priority, whether the cache write fails or not.
C15_CacheErrorIsMissOrNoOp ==
  /\ [][(SpeakStep /\ cache[lastcall'.text] = Corrupt /\ config.cache_enabled)
          => /\ caller' = caller
             /\ tasks' = tasks (+) SetToBag({NewTask(lastcall'.text,
                                                     lastcall'.priority)})]_vars
  /\ [][\A r \in TasksAt("cache") :
          Left(r) => Became([r EXCEPT !.pc = "put"], "put")]_vars

--------------------------------------------------------------------------
(* SceneAnalyzer: tracks (SpecTrack)                                       *)

TrackedIds == {i \in Ids : tracks[i] # NoTrack}
DetectedIds(objs) == {objs[k].id : k \in 1..Len(objs)}

\* C16: after every call the tracked ids are the ids of that call's
\* detections (an unseen id has a track, an id absent from the call has
\* none), and a track that the call started has a history of one sample.
C16_TrackedIdsAreDetectedIds ==
  /\ [](clock > 0 => TrackedIds = DetectedIds(scene.objects))
  /\ [][\A i \in DetectedIds(scene'.objects) :
          tracks[i] = NoTrack
            => /\ Len(tracks'[i].positions) = 1
               /\ Len(tracks'[i].timestamps) = 1]_vars

\* C17: the position history and the timestamp history of every track hold
\* at most context_window samples and have the same length; a call that
\* appends to a full history drops the oldest sample and keeps the others
\* in their order, followed by the new sample.
C17_HistoryCapped ==
  /\ [](\A i \in Ids :
          /\ Len(tracks[i].positions) <= ContextWindow
          /\ Len(tracks[i].timestamps) = Len(tracks[i].positions))
  /\ [][\A i \in Ids :
          (/\ Len(tracks[i].positions) = ContextWindow
           /\ tracks'[i] # NoTrack
           /\ tracks'[i].timestamps # tracks[i].timestamps)
            => \E k \in 1..Len(scene'.objects) :
                 /\ scene'.objects[k].id = i
                 /\ tracks'[i].positions
                      = Append(Tail(tracks[i].positions),
                               centre(scene'.objects[k].bbox))
                 /\ tracks'[i].timestamps
                      = Append(Tail(tracks[i].timestamps), clock')]_vars

\* a call found a full history and appended its sample to it
C17_Witness ==
  \E i \in scene.full :
    /\ Len(tracks[i].timestamps) = ContextWindow
    /\ tracks[i].timestamps[ContextWindow] = clock
    /\ tracks[i].timestamps[1] > 1

--------------------------------------------------------------------------
(* SceneAnalyzer: one frame (SpecScene)                                    *)

DetectedClasses == {scene.objects[k].class : k \in 1..Len(scene.objects)}

\* a rule matches: every required class is present, and the rule has no
\* optional class or one of them is present
RuleMatches(rule, cs) ==
  /\ rule.required \subseteq cs
  /\ rule.optional = {} \/ \E c \in rule.optional : c \in cs

ExpectedLabel(cs) ==
  LET matching == {i \in 1..Len(scene_rules) : RuleMatches(scene_rules[i], cs)}
  IN IF matching = {} THEN "unknown"
     ELSE scene_rules[CHOOSE i \in matching : \A j \in matching : i <= j].label

\* C18: the label analyze computes for a frame is the label of the first
\* rule, in declaration order, whose required classes are all present and
\* whose optional list is empty or has a class present; "unknown" if there
\* is no such rule.
C18_FirstMatchingRule ==
  scene.scene_type # None => scene.scene_type = ExpectedLabel(DetectedClasses)

FrameCentre == <<320, 240>>   \* a frame of 640 x 480

\* the square of the distance of the centre of a box from the frame centre
Distance2(bbox) ==
  LET c == <<(bbox[1] + bbox[3]) \div 2, (bbox[2] + bbox[4]) \div 2>>
  IN (c[1] - FrameCentre[1]) * (c[1] - FrameCentre[1])
       + (c[2] - FrameCentre[2]) * (c[2] - FrameCentre[2])

NearbyTags ==
  {<<"nearby", scene.objects[k].class>> :
     k \in {j \in 1..Len(scene.objects) :
              Distance2(scene.objects[j].bbox)
                < DistanceThreshold * DistanceThreshold}}

\* C19: a call of analyze whose tracks were updated completes without an
\* error, and the nearby tags of its risk set are the tags of the
\* detections whose centre is at a distance strictly less than the
\* threshold from the frame centre.
C19_NearbyTagsWithinThreshold ==
  (clock > 0 /\ scene.scene_type # None)
    => /\ scene.raised = None
       /\ {t \in scene.risks : t[1] = "nearby"} = NearbyTags

--------------------------------------------------------------------------
(* VisionAssistant: the adaptive controller (SpecCtl)                      *)

WithinBounds(res) ==
  /\ 640 <= res[1] /\ res[1] <= 1920
  /\ 480 <= res[2] /\ res[2] <= 1080

\* C20: the working resolution stays between 640 x 480 and 1920 x 1080, and
\* after an adjustment the working resolution is the one the adjustment
\* computed.
C20_ResolutionBoundedAndRecorded ==
  /\ WithinBounds(config_get(resolution))
  /\ adjusted.action # None
       => /\ adjusted.raised = None
          /\ resolution = adjusted.new_res

--------------------------------------------------------------------------
(* EventBus: equal priorities, re-entrant subscribe (SpecBus)              *)

\* the entry that the publish call of this step put into the queue
Published == CHOOSE e \in {queue'[i] : i \in 1..Len(queue')} : e.id = nevents'

\* C26: every publish call completes without an error, also with events of
\* the same priority pending, and every event that the dispatch thread
\* takes off the queue is handed to _dispatch: none is lost.
C26_EqualPrioritiesDelivered ==
  /\ [][nevents' = nevents + 1 => ~heappush(queue, Published).raised]_vars
  /\ [][Len(queue') < Len(queue) => worker'.pc = "dispatch"]_vars

\* C27: when a handler subscribed a further handler for the type of the
\* event being dispatched, every handler subscribed when the dispatch began
\* has still been invoked exactly once when the dispatch returns.
C27_ReentrantSubscribeKeepsDispatch ==
  [][(/\ worker.pc = "iter" /\ worker'.pc = "get"
      /\ Len(subscriptions[worker.event.type]) > Len(buslog.atdispatch))
       => \A h \in SnapshotHandlers : TimesInvoked(h) = 1]_vars

--------------------------------------------------------------------------
(* SceneAnalyzer: detections without attributes (SpecTrack)                *)

\* C28: no call of analyze ends in the KeyError of a detection without
\* attributes, and such a detection of a tracked id leaves the attributes
\* of its track as they are and has its sample appended.
C28_AttributesOptional ==
  /\ [](scene.raised # "KeyError")
  /\ [][\A k \in 1..Len(scene'.objects) :
          LET obj == scene'.objects[k]
          IN (obj.attributes = Absent /\ tracks[obj.id] # NoTrack)
               => /\ tracks'[obj.id].attributes = tracks[obj.id].attributes
                  /\ Len(tracks'[obj.id].timestamps) > 0
                  /\ tracks'[obj.id].timestamps[Len(tracks'[obj.id].timestamps)]
                       = clock']_vars

--------------------------------------------------------------------------
(* TTSService: stop (SpecOrd)                                              *)

\* C30: once stop() has returned, the consumer starts the playback of no
\* item - neither of the batch it had drained nor of a new one - and begins
\* no new drain of the queue.
C30_NoPlaybackAfterStop ==
  /\ [][~running => playing' \in {playing, NoItem}]_vars
  /\ [][(~running /\ consumer.pc = "loop") => consumer'.pc # "drain"]_vars

--------------------------------------------------------------------------
(* VisionAssistant: startup (SpecStart)                                    *)

Proceeded == startup.pc \in {"register", "constructed", "running"}
NothingSubscribed == \A t \in MainEventTypes : subscriptions[t] = <<>>

\* C25, as claimed: the wait makes at most 5 sleeps; a camera that reported
\* ready at a poll lets startup proceed, a camera that never did makes it
\* fail, and a failed startup has not set the running flag or subscribed a
\* handler.
C25_ReadyAtAnyPollProceeds ==
  /\ startup.waits <= 5
  /\ startup.pc = "failed" => ~startup.sawready
  /\ Proceeded => startup.sawready
  /\ startup.pc = "failed" => ~assistant /\ NothingSubscribed

\* C25, amended: the wait makes at most 5 sleeps; startup proceeds exactly
\* when the camera reports ready at the check that follows the loop, and
\* fails when it does not - after 5 sleeps if the camera never reported
\* ready; a failed startup has not set the running flag, started the
\* camera or subscribed a handler.
C25_ReadyAtCheckProceeds ==
  /\ startup.waits <= 5
  /\ startup.pc = "failed" => ~startup.ready
  /\ Proceeded => startup.ready /\ startup.sawready
  /\ (startup.pc = "failed" /\ ~startup.sawready) => startup.waits = 5
  /\ startup.pc = "failed"
       => ~assistant /\ ~hw.capturing /\ NothingSubscribed

\* the camera was never ready: five sleeps, then the fatal error
C25_Witness ==
  /\ startup.pc = "failed"
  /\ ~startup.sawready
  /\ startup.waits = 5

--------------------------------------------------------------------------
(* VisionAssistant: the frame pipeline (SpecPipe)                          *)

\* the events for which _process_frame has been called and has been left
FinishedFrames == {i \in 1..Len(framelog) : framelog[i].finished > 0}

\* C21: when a step of a frame's pipeline raises, the exception is caught
\* inside _process_frame, the publish of the one ERROR alert of that frame
\* completes, and no exception leaves the frame handler
C21_RaisedFrameBecomesOneAlert ==
  \A i \in FinishedFrames :
    framelog[i].raised => framelog[i].alerts = 1 /\ ~framelog[i].escaped

StageOrder ==
  <<"preprocess", "submit", "result", "analyze", "narrate", "speak", "metrics">>

\* the frame events inside _process_frame
FramesInside ==
  {i \in 1..Len(framelog) : framelog[i].entered > framelog[i].finished}

\* C23: at most one frame is inside _process_frame and at most one
\* detection task is running, that of the frame waiting in result(); the
\* handler is from analyze on only with the detection of its frame
\* finished; a statement that returns is followed by the next one of
\* preprocess, detect (submit, result), analyze, narrate, speak
C23_OneFrameOneDetectionInOrder ==
  /\ [](Cardinality(FramesInside) <= 1)
  /\ [](Cardinality(pool.inflight) <= 1)
  /\ [](pool.inflight # {} =>
         pipe.stage = "result" /\ pool.inflight = {pipe.frame})
  /\ [](pipe.stage \in {"analyze", "narrate", "speak", "metrics"} =>
         /\ pipe.frame \notin pool.inflight
         /\ \E f \in pool.finished : f.frame = pipe.frame)
  /\ [][\A k \in 1..(Len(StageOrder) - 1) :
          (pipe.stage = StageOrder[k] /\ pipe'.stage # pipe.stage
             /\ pipe'.stage \notin {"except", "idle"})
          => pipe'.stage = StageOrder[k + 1]]_vars

\* the detection of a second frame is running while its handler waits
C23_Witness ==
  /\ pool.inflight = {pipe.frame}
  /\ pipe.stage = "result"
  /\ FinishedFrames # {}
  /\ \E i \in 1..Len(queue) : queue[i].type = "FRAME_CAPTURED"

--------------------------------------------------------------------------
(* VisionAssistant: shutdown (FairSpecShut)                                *)

\* the steps of _graceful_shutdown in the order of the claim
ShutdownOrder == <<"running", "camera", "listener", "tts", "pool", "exit">>

StepsDone == {shut.done[i] : i \in 1..Len(shut.done)}

\* C24: the steps of the shutdown are taken in the order running flag,
\* camera, listener, speech service, pool, exit, each with its effect; the
\* pool step ends with no detection task running; and a shutdown that has
\* begun reaches the exit, whether or not the consumer thread had ended
\* when the join returned
C24_ShutdownOrderAndExit ==
  /\ [](/\ Len(shut.done) <= Len(ShutdownOrder)
        /\ \A i \in 1..Len(shut.done) : shut.done[i] = ShutdownOrder[i])
  /\ [](/\ hw.released <=> "camera" \in StepsDone
        /\ "listener" \in StepsDone => ~hw.listening
        /\ "tts" \in StepsDone => ~running
        /\ pool.shutdown => "tts" \in StepsDone
        /\ "pool" \in StepsDone => pool.shutdown /\ pool.inflight = {})
  /\ [][("running" \notin StepsDone /\ "running" \in StepsDone') => ~assistant']_vars
  /\ (shut.pc # "idle") ~> (shut.pc = "exited")

\* the process has exited after a join that returned with the consumer
\* thread alive, and after a pool shutdown that found a detection running
C24_Witness ==
  /\ shut.pc = "exited"
  /\ ~shut.joined
  /\ shut.waited

============================================================================
